---- MODULE Spec2Model ----
(***************************************************************************)
(* Context budgeting and batch packing of code_summarizer's ContextManager *)
(* (src/src/code_summarizer/context_manager.py).                           *)
(*                                                                         *)
(* A text (Python str) is modelled by the sequence of the lengths of its   *)
(* segments between '\n' characters, i.e. by what str.split('\n') returns  *)
(* with every piece replaced by its length: "ab\n\nc\n" is <<2, 0, 1, 0>>  *)
(* and the empty string is <<0>>.  The character count, splitlines, join   *)
(* and concatenation are computed on that representation.                  *)
(***************************************************************************)
EXTENDS Integers, Sequences, FiniteSets, TLC

VARIABLES
    max_context_tokens,  \* self.max_context_tokens
    response_tokens,     \* self.response_tokens
    available_tokens,    \* self.available_tokens
    tokenizer,           \* "encodes": tokenizer.encode returns; "raises": it raises
    pc,                  \* "idle", "loop" (in create_batches), "done" (it returned),
                         \* "truncated" (a direct _truncate_file_content call returned)
    files_data,          \* argument of create_batches
    file_tokens,         \* local list of (file_data, tokens), sorted
    idx,                 \* position of the for loop in file_tokens (1-based)
    batches,             \* local list of batches
    current_batch,       \* local
    current_tokens,      \* local
    result,              \* value returned by create_batches
    truncate_calls,      \* log of the (file_data, max_tokens) passed to _truncate_file_content
    trunc_file,          \* argument of the last direct _truncate_file_content call
    trunc_max,           \* its max_tokens
    trunc_result,        \* its return value
    args_before,         \* the argument of the running call as it was when the call began
    calls,               \* number of create_batches calls made on files_data so far
    first_result,        \* what the first of two calls on the same list returned
    fn_arg,              \* argument of the last direct call of count_tokens,
                         \* optimize_batching_strategy or get_batch_info
    fn_result,           \* its outcome
    frames,              \* the locals of two interleaved create_batches invocations
    service              \* one AnalysisService.analyze_files run

vars == <<max_context_tokens, response_tokens, available_tokens, tokenizer, pc,
          files_data, file_tokens, idx, batches, current_batch, current_tokens,
          result, truncate_calls, trunc_file, trunc_max, trunc_result,
          args_before, calls, first_result, fn_arg, fn_result, frames, service>>

cfgVars == <<max_context_tokens, response_tokens, available_tokens, tokenizer>>
truncVars == <<trunc_file, trunc_max, trunc_result>>
packVars == <<files_data, file_tokens, idx, batches, current_batch, current_tokens,
              result, truncate_calls>>
callVars == <<args_before, calls, first_result>>
otherVars == <<fn_arg, fn_result, frames, service>>
mainVars == <<pc, packVars, truncVars, callVars, fn_arg, fn_result, service>>

\* ------------------------------------------------------------------ bounds
MaxFiles == 3      \* longest file list passed to create_batches
MaxSegs == 3       \* most '\n'-separated segments of a directly truncated content
MaxRepeatFiles == 2    \* longest file list on which create_batches is called twice
MaxAdvised == 11   \* longest file list passed to optimize_batching_strategy
MaxConcFiles == 2  \* longest file list of each of two interleaved invocations
MaxServiceFiles == 2   \* longest file list of an analyze_files run

\* --------------------------------------------------------- program constants
prompt_overhead == 2000
metadata_tokens == 200
DefaultMaxTokens == 4000
CharsPerToken == 4
FileByFileLimit == 10

None == "None"

\* ------------------------------------------------------------------- texts
RECURSIVE SumSeq(_)
SumSeq(s) == IF s = <<>> THEN 0 ELSE Head(s) + SumSeq(Tail(s))

\* len(text)
StrLen(t) == SumSeq(t) + Len(t) - 1

\* a + b on strings
Concat(a, b) ==
    SubSeq(a, 1, Len(a) - 1) \o <<a[Len(a)] + b[1]>> \o SubSeq(b, 2, Len(b))

\* str.splitlines(): the lines without their terminators; a final empty
\* segment (empty string, or text ending in '\n') is no line
splitlines(t) == IF t[Len(t)] = 0 THEN SubSeq(t, 1, Len(t) - 1) ELSE t

\* ------------------------------------------------------------ file records
Names == <<"main.py", "util.js", "tools.c", "README.txt", "Legacy.PY">>
Dirs == <<"src/", "app/", "lib/", "docs/", "old/">>
Extensions == <<".py", ".js", ".c", ".txt", ".PY">>

\* the record _create_file_data builds for the i-th path with this content
\* (the fields are written in the order TLC keeps them in, which is the order
\* in which this module first mentions them)
FileData(i, text) ==
    [lines |-> Len(splitlines(text)),
     name |-> Names[i],
     path |-> Dirs[i] \o Names[i],
     content |-> text,
     absolute_path |-> "/tmp/x/" \o Dirs[i] \o Names[i],
     extension |-> Extensions[i],
     size |-> StrLen(text)]

\* '\n'.join(lines)
JoinLines(lines) == IF lines = <<>> THEN <<0>> ELSE lines

\* line + '\n'
LineNl(line) == <<line, 0>>

\* len(str(n)) for n >= 0
RECURSIVE Digits(_)
Digits(n) == IF n < 10 THEN 1 ELSE 1 + Digits(n \div 10)

CeilDiv(a, b) == (a + b - 1) \div b

\* "\n\n[... Content truncated due to size limits ...]\n"
truncation_message == <<0, 0, 46, 0>>

\* ---------------------------------------------------------------- tokens
\* len(self.tokenizer.encode(text)) when encode returns: every '\n' is a
\* token and a run of other characters takes one token per CharsPerToken
\* characters (byte-pair encodings average four characters a token); the
\* empty text has no token.
RECURSIVE EncodeRuns(_)
EncodeRuns(t) ==
    IF t = <<>> THEN 0 ELSE CeilDiv(Head(t), CharsPerToken) + EncodeRuns(Tail(t))

EncodeLen(t) == EncodeRuns(t) + Len(t) - 1

\* variant: the estimate rounds up
FallbackTokens_Ceil(t) == CeilDiv(StrLen(t), CharsPerToken)

\* len(text) // 4
FallbackTokens(t) == StrLen(t) \div 4

\* variant: the handler does not catch what encode raised
CountOutcome_Propagates(t) ==
    IF tokenizer = "encodes"
    THEN [raised |-> FALSE, value |-> EncodeLen(t)]
    ELSE [raised |-> TRUE, value |-> 0]

\* how a count_tokens call ends: try: return len(self.tokenizer.encode(text))
\* except Exception: return len(text) // 4
CountOutcome(t) ==
    IF tokenizer = "encodes"
    THEN [raised |-> FALSE, value |-> EncodeLen(t)]
    ELSE [raised |-> FALSE, value |-> FallbackTokens(t)]

count_tokens(t) == CountOutcome(t).value

\* f"File: {name}\nPath: {path}\nLines: {lines}\n"
MetadataHeader(f) ==
    <<6 + Len(f.name), 6 + Len(f.path), 7 + Digits(f.lines), 0>>

estimate_file_tokens(f) == count_tokens(f.content) + count_tokens(MetadataHeader(f))

\* ------------------------------------------------------------- truncation
\* variant: continue instead of break at a line that does not fit
RECURSIVE KeepLines_Skip(_, _, _, _, _)
KeepLines_Skip(lines, i, cur, available_for_content, kept) ==
    IF i > Len(lines) THEN kept
    ELSE LET line_tokens == count_tokens(LineNl(lines[i]))
         IN IF cur + line_tokens > available_for_content
            THEN KeepLines_Skip(lines, i + 1, cur, available_for_content, kept)
            ELSE KeepLines_Skip(lines, i + 1, cur + line_tokens,
                                available_for_content, Append(kept, lines[i]))

\* variant: the first line is kept whatever it costs
RECURSIVE KeepLines_AtLeastOne(_, _, _, _, _)
KeepLines_AtLeastOne(lines, i, cur, available_for_content, kept) ==
    IF i > Len(lines) THEN kept
    ELSE LET line_tokens == count_tokens(LineNl(lines[i]))
         IN IF cur + line_tokens > available_for_content /\ kept # <<>>
            THEN kept
            ELSE KeepLines_AtLeastOne(lines, i + 1, cur + line_tokens,
                                      available_for_content, Append(kept, lines[i]))

\* variant: a line that fills the budget exactly is not kept
RECURSIVE KeepLines_Ge(_, _, _, _, _)
KeepLines_Ge(lines, i, cur, available_for_content, kept) ==
    IF i > Len(lines) THEN kept
    ELSE LET line_tokens == count_tokens(LineNl(lines[i]))
         IN IF cur + line_tokens >= available_for_content
            THEN kept
            ELSE KeepLines_Ge(lines, i + 1, cur + line_tokens,
                              available_for_content, Append(kept, lines[i]))

\* the for loop of _truncate_file_content from line i on, with running total
\* cur and the lines kept so far: the final truncated_lines
RECURSIVE KeepLines(_, _, _, _, _)
KeepLines(lines, i, cur, available_for_content, kept) ==
    IF i > Len(lines) THEN kept
    ELSE LET line_tokens == count_tokens(LineNl(lines[i]))
         IN IF cur + line_tokens > available_for_content
            THEN kept
            ELSE KeepLines(lines, i + 1, cur + line_tokens,
                           available_for_content, Append(kept, lines[i]))

truncated_lines_of(f, max_tokens) ==
    LET truncation_tokens == count_tokens(truncation_message)
        available_for_content == max_tokens - metadata_tokens - truncation_tokens
    IN KeepLines(splitlines(f.content), 1, 0, available_for_content, <<>>)

\* variant: lines and size are brought in line with the new content
truncate_file_content_LinesUpdated(f, max_tokens) ==
    LET kept == truncated_lines_of(f, max_tokens)
    IN [lines |-> Len(kept),
        name |-> f.name,
        path |-> f.path,
        content |-> Concat(JoinLines(kept), truncation_message),
        absolute_path |-> f.absolute_path,
        extension |-> f.extension,
        size |-> StrLen(Concat(JoinLines(kept), truncation_message)),
        truncated |-> TRUE,
        original_lines |-> f.lines,
        truncated_lines |-> Len(kept)]

\* variant: original_lines is the number of lines of the new content
truncate_file_content_KeptAsOriginal(f, max_tokens) ==
    LET kept == truncated_lines_of(f, max_tokens)
    IN [lines |-> f.lines,
        name |-> f.name,
        path |-> f.path,
        content |-> Concat(JoinLines(kept), truncation_message),
        absolute_path |-> f.absolute_path,
        extension |-> f.extension,
        size |-> f.size,
        truncated |-> TRUE,
        original_lines |-> Len(kept),
        truncated_lines |-> Len(kept)]

\* truncated_file = file_data.copy() and the four assignments to it
truncate_file_content(f, max_tokens) ==
    LET kept == truncated_lines_of(f, max_tokens)
    IN [lines |-> f.lines,
        name |-> f.name,
        path |-> f.path,
        content |-> Concat(JoinLines(kept), truncation_message),
        absolute_path |-> f.absolute_path,
        extension |-> f.extension,
        size |-> f.size,
        truncated |-> TRUE,
        original_lines |-> f.lines,
        truncated_lines |-> Len(kept)]

\* variant: no copy is made, the assignments of lines 134-137 land in the input
InputAfterTruncate_NoCopy(f, max_tokens) == truncate_file_content(f, max_tokens)

\* the input record after _truncate_file_content returned: the assignments go
\* to truncated_file = file_data.copy(), so the input keeps fields and values
InputAfterTruncate(f, max_tokens) == f

\* ------------------------------------------------------------- inputs
\* contents of the files handed to create_batches; with the fallback count
\* and the 10-token header of FileData the one-line files cost 600, 500, 400
\* and 300 tokens and the empty file 10
PackContents ==
    { <<2360>>,
      <<1960>>,
      <<1560>>,
      <<1160>>,
      <<1200, 1200, 1200, 1200>>,    \* four long lines, no final newline
      <<0>> }                        \* the empty file

\* a file list: files with pairwise different paths and these contents
FileList(contents) == [i \in 1..Len(contents) |-> FileData(i, contents[i])]

\* contents and targets of direct _truncate_file_content calls
LineLens == {0, 2, 400}
TruncContents == UNION { [1..n -> LineLens] : n \in 1..MaxSegs }
TruncTargets == {-5, 0, 212, 250, 420, 1000}

\* long file lists of optimize_batching_strategy calls: n files of one content
AdvisedList(n, c) == [i \in 1..n |-> FileData(((i - 1) % Len(Names)) + 1, c)]

\* contents of the files of get_batch_info calls, one per file name
InfoContents ==
    << <<2360>>, <<2, 0, 400>>, <<0>>, <<1200, 1200, 1200, 1200>>, <<2, 2, 0>> >>

\* contents of the files of two interleaved invocations: at 1000 tokens one
\* file of 600, one of 500 (two of them fill a batch) and one oversized
ConcContents == { <<2360>>, <<1960>>, <<1200, 1200, 1200, 1200>> }

\* llm.max_context_tokens of the ContextManager the two invocations share
ConcContext == 7000

\* texts of direct count_tokens calls
CountTexts == TruncContents \cup {truncation_message, <<7>>, <<8>>, <<9>>}

\* llm.max_context_tokens of the configuration file
ContextChoices == {128000, 7000, 6010, 6000, 5000}

\* ------------------------------------------------------------------ sorting
\* variant: a descending sort that reverses files of equal tokens
RECURSIVE InsertDesc_Unstable(_, _)
InsertDesc_Unstable(sorted, x) ==
    IF sorted = <<>> THEN <<x>>
    ELSE IF Head(sorted)[2] > x[2]
         THEN <<Head(sorted)>> \o InsertDesc_Unstable(Tail(sorted), x)
         ELSE <<x>> \o sorted

\* list.sort(key=lambda x: x[1], reverse=True): stable, descending by tokens
RECURSIVE InsertDesc(_, _)
InsertDesc(sorted, x) ==
    IF sorted = <<>> THEN <<x>>
    ELSE IF Head(sorted)[2] >= x[2]
         THEN <<Head(sorted)>> \o InsertDesc(Tail(sorted), x)
         ELSE <<x>> \o sorted

\* variant: the list is packed in input order
SortDesc_Unsorted(s) == s

RECURSIVE SortDesc(_)
SortDesc(s) ==
    IF s = <<>> THEN <<>>
    ELSE InsertDesc(SortDesc(SubSeq(s, 1, Len(s) - 1)), s[Len(s)])

\* an analyze_files run that has not begun
IdleService ==
    [pc |-> "idle", idx |-> 0, batches |-> <<>>, output_format |-> "json",
     llm_calls |-> <<>>, batch_results |-> 0, markdown_output |-> None]

\* ------------------------------------------------------------------- Init
\* ContextManager.__init__
Init ==
    /\ max_context_tokens \in ContextChoices
    /\ response_tokens = DefaultMaxTokens
    /\ available_tokens = max_context_tokens - prompt_overhead - response_tokens
    /\ tokenizer \in {"encodes", "raises"}
    /\ pc = "idle"
    /\ files_data = <<>>
    /\ file_tokens = <<>>
    /\ idx = 0
    /\ batches = <<>>
    /\ current_batch = <<>>
    /\ current_tokens = 0
    /\ result = None
    /\ truncate_calls = <<>>
    /\ trunc_file = None
    /\ trunc_max = 0
    /\ trunc_result = None
    /\ args_before = None
    /\ calls = 0
    /\ first_result = <<>>
    /\ fn_arg = <<>>
    /\ fn_result = None
    /\ frames = <<>>
    /\ service = IdleService

\* ---------------------------------------------------------- create_batches
\* variant: no early return and the final batch appended unconditionally
CallEmpty_EmptyBatch ==
    /\ pc = "idle"
    /\ pc' = "done"
    /\ result' = << <<>> >>
    /\ args_before' = <<>>
    /\ calls' = 1
    /\ UNCHANGED <<cfgVars, truncVars, otherVars, first_result, files_data, file_tokens, idx, batches,
                   current_batch, current_tokens, truncate_calls>>

\* entry with an empty list: the early return
CallEmpty ==
    /\ pc = "idle"
    /\ pc' = "done"
    /\ files_data' = <<>>
    /\ file_tokens' = <<>>
    /\ idx' = 0
    /\ batches' = <<>>
    /\ current_batch' = <<>>
    /\ current_tokens' = 0
    /\ result' = <<>>
    /\ truncate_calls' = <<>>
    /\ args_before' = <<>>
    /\ calls' = 1
    /\ UNCHANGED <<cfgVars, truncVars, otherVars, first_result>>

\* the (file_data, tokens) list before sorting
Estimates(files) == [i \in 1..Len(files) |-> <<files[i], estimate_file_tokens(files[i])>>]

\* entry with files: estimate, sort, initialise the locals
CallFiles(files) ==
    /\ pc = "idle"
    /\ files # <<>>
    /\ pc' = "loop"
    /\ files_data' = files
    /\ file_tokens' = SortDesc(Estimates(files))
    /\ idx' = 1
    /\ batches' = <<>>
    /\ current_batch' = <<>>
    /\ current_tokens' = 0
    /\ result' = None
    /\ truncate_calls' = <<>>
    /\ args_before' = files
    /\ calls' = 1
    /\ UNCHANGED <<cfgVars, truncVars, otherVars, first_result>>

InLoop == pc = "loop" /\ idx <= Len(file_tokens)
file_data == file_tokens[idx][1]
token_count == file_tokens[idx][2]

\* variant: a file costing exactly the budget counts as oversized
IsOversized_Ge(tokens) == tokens >= available_tokens

\* if token_count > self.available_tokens
IsOversized(tokens) == tokens > available_tokens

\* variant: a file filling the batch exactly to the budget does not fit
StartsNewBatch_Ge(tokens) ==
    current_tokens + tokens >= available_tokens /\ current_batch # <<>>

\* if current_tokens + token_count > self.available_tokens and current_batch
StartsNewBatch(tokens) ==
    current_tokens + tokens > available_tokens /\ current_batch # <<>>

\* variant: without the continue the file goes on into the packing branches
LoopOversized_NoContinue ==
    /\ InLoop
    /\ IsOversized(token_count)
    /\ truncate_calls' = Append(truncate_calls, <<file_data, available_tokens>>)
    /\ LET truncated_file == truncate_file_content(file_data, available_tokens)
       IN IF StartsNewBatch(token_count)
          THEN /\ batches' = Append(Append(batches, <<truncated_file>>), current_batch)
               /\ current_batch' = <<file_data>>
               /\ current_tokens' = token_count
          ELSE /\ batches' = Append(batches, <<truncated_file>>)
               /\ current_batch' = Append(current_batch, file_data)
               /\ current_tokens' = current_tokens + token_count
    /\ idx' = idx + 1
    /\ UNCHANGED <<cfgVars, truncVars, callVars, otherVars, pc, files_data, file_tokens, result>>

\* variant: truncation to a target other than the whole budget
LoopOversized_ReducedTarget ==
    /\ InLoop
    /\ IsOversized(token_count)
    /\ batches' = Append(batches,
            <<truncate_file_content(file_data, available_tokens - metadata_tokens)>>)
    /\ truncate_calls' = Append(truncate_calls,
            <<file_data, available_tokens - metadata_tokens>>)
    /\ idx' = idx + 1
    /\ UNCHANGED <<cfgVars, truncVars, callVars, otherVars, pc, files_data, file_tokens,
                   current_batch, current_tokens, result>>

\* the file alone exceeds the limit: truncate it into a batch of its own.
\* files_data is the caller's list as it is now: the record handed to
\* _truncate_file_content is one of its members.
LoopOversized ==
    /\ InLoop
    /\ IsOversized(token_count)
    /\ batches' = Append(batches, <<truncate_file_content(file_data, available_tokens)>>)
    /\ truncate_calls' = Append(truncate_calls, <<file_data, available_tokens>>)
    /\ files_data' = [i \in 1..Len(files_data) |->
                        IF files_data[i] = file_data
                        THEN InputAfterTruncate(file_data, available_tokens)
                        ELSE files_data[i]]
    /\ idx' = idx + 1
    /\ UNCHANGED <<cfgVars, truncVars, callVars, otherVars, pc, file_tokens,
                   current_batch, current_tokens, result>>

\* the file does not fit the non-empty current batch: close it, start a new one
LoopNewBatch ==
    /\ InLoop
    /\ ~IsOversized(token_count)
    /\ StartsNewBatch(token_count)
    /\ batches' = Append(batches, current_batch)
    /\ current_batch' = <<file_data>>
    /\ current_tokens' = token_count
    /\ idx' = idx + 1
    /\ UNCHANGED <<cfgVars, truncVars, callVars, otherVars, pc, files_data, file_tokens, result,
                   truncate_calls>>

\* the file joins the current batch
LoopAdd ==
    /\ InLoop
    /\ ~IsOversized(token_count)
    /\ ~StartsNewBatch(token_count)
    /\ current_batch' = Append(current_batch, file_data)
    /\ current_tokens' = current_tokens + token_count
    /\ idx' = idx + 1
    /\ UNCHANGED <<cfgVars, truncVars, callVars, otherVars, pc, files_data, file_tokens, batches,
                   result, truncate_calls>>

\* variant: the final batch is appended without the test
Finish_AppendAlways ==
    /\ pc = "loop"
    /\ idx > Len(file_tokens)
    /\ batches' = Append(batches, current_batch)
    /\ result' = batches'
    /\ pc' = "done"
    /\ UNCHANGED <<cfgVars, truncVars, callVars, otherVars, files_data, file_tokens, idx,
                   current_batch, current_tokens, truncate_calls>>

\* after the loop: the final batch if not empty, and the return
Finish ==
    /\ pc = "loop"
    /\ idx > Len(file_tokens)
    /\ batches' = IF current_batch # <<>> THEN Append(batches, current_batch) ELSE batches
    /\ result' = batches'
    /\ pc' = "done"
    /\ UNCHANGED <<cfgVars, truncVars, callVars, otherVars, files_data, file_tokens, idx,
                   current_batch, current_tokens, truncate_calls>>

\* a second create_batches call on the same ContextManager with the list the
\* first call was given, as that list is now
CallAgain ==
    /\ pc = "done"
    /\ calls = 1
    /\ Len(files_data) <= MaxRepeatFiles
    /\ calls' = 2
    /\ first_result' = result
    /\ pc' = IF files_data = <<>> THEN "done" ELSE "loop"
    /\ file_tokens' = SortDesc(Estimates(files_data))
    /\ idx' = IF files_data = <<>> THEN 0 ELSE 1
    /\ batches' = <<>>
    /\ current_batch' = <<>>
    /\ current_tokens' = 0
    /\ result' = IF files_data = <<>> THEN <<>> ELSE None
    /\ truncate_calls' = <<>>
    /\ UNCHANGED <<cfgVars, truncVars, otherVars, args_before, files_data>>

\* ------------------------------------- a direct _truncate_file_content call
\* trunc_file is the caller's record as it is after the call
Truncate(f, max_tokens) ==
    /\ pc = "idle"
    /\ pc' = "truncated"
    /\ args_before' = f
    /\ trunc_file' = InputAfterTruncate(f, max_tokens)
    /\ trunc_max' = max_tokens
    /\ trunc_result' = truncate_file_content(f, max_tokens)
    /\ UNCHANGED <<cfgVars, otherVars, calls, first_result, files_data, file_tokens, idx, batches, current_batch,
                   current_tokens, result, truncate_calls>>

\* ------------------------------------------------ a direct count_tokens call
CountTokens(t) ==
    /\ pc = "idle"
    /\ pc' = "counted"
    /\ fn_arg' = t
    /\ fn_result' = CountOutcome(t)
    /\ UNCHANGED <<cfgVars, truncVars, packVars, callVars, frames, service>>

\* ------------------------------------------------ optimize_batching_strategy
\* variant: ten files are already too many for file_by_file
optimize_batching_strategy_Lt(files) ==
    LET total_files == Len(files)
        total_tokens == SumSeq([i \in 1..Len(files) |-> estimate_file_tokens(files[i])])
    IN IF total_tokens <= available_tokens THEN "single_batch"
       ELSE IF total_files < FileByFileLimit THEN "file_by_file"
       ELSE "smart_batching"

\* variant: a total equal to the budget is already too much
optimize_batching_strategy_StrictTotal(files) ==
    LET total_files == Len(files)
        total_tokens == SumSeq([i \in 1..Len(files) |-> estimate_file_tokens(files[i])])
    IN IF total_tokens < available_tokens THEN "single_batch"
       ELSE IF total_files <= FileByFileLimit THEN "file_by_file"
       ELSE "smart_batching"

\* variant: the total is compared with the whole context window
optimize_batching_strategy_WholeWindow(files) ==
    LET total_files == Len(files)
        total_tokens == SumSeq([i \in 1..Len(files) |-> estimate_file_tokens(files[i])])
    IN IF total_tokens <= max_context_tokens THEN "single_batch"
       ELSE IF total_files <= FileByFileLimit THEN "file_by_file"
       ELSE "smart_batching"

optimize_batching_strategy(files) ==
    LET total_files == Len(files)
        total_tokens == SumSeq([i \in 1..Len(files) |-> estimate_file_tokens(files[i])])
    IN IF total_tokens <= available_tokens THEN "single_batch"
       ELSE IF total_files <= FileByFileLimit THEN "file_by_file"
       ELSE "smart_batching"

\* a direct optimize_batching_strategy call
Advise(files) ==
    /\ pc = "idle"
    /\ pc' = "advised"
    /\ fn_arg' = files
    /\ fn_result' = optimize_batching_strategy(files)
    /\ UNCHANGED <<cfgVars, truncVars, packVars, callVars, frames, service>>

\* ------------------------------------------------------------ get_batch_info
\* str.lower() on the extensions of the model, of which ".PY" has capitals
Lower(ext) == IF ext = ".PY" THEN ".py" ELSE ext

\* ext_map.get(extension.lower(), 'Unknown')
extension_to_language(ext) ==
    CASE Lower(ext) = ".py" -> "Python"
      [] Lower(ext) = ".js" -> "JavaScript"
      [] Lower(ext) = ".ts" -> "TypeScript"
      [] Lower(ext) = ".jsx" -> "JavaScript"
      [] Lower(ext) = ".tsx" -> "TypeScript"
      [] Lower(ext) = ".java" -> "Java"
      [] Lower(ext) = ".cpp" -> "C++"
      [] Lower(ext) = ".c" -> "C"
      [] Lower(ext) = ".h" -> "C"
      [] Lower(ext) = ".hpp" -> "C++"
      [] Lower(ext) = ".cs" -> "C#"
      [] Lower(ext) = ".swift" -> "Swift"
      [] Lower(ext) = ".go" -> "Go"
      [] Lower(ext) = ".rs" -> "Rust"
      [] Lower(ext) = ".php" -> "PHP"
      [] Lower(ext) = ".rb" -> "Ruby"
      [] Lower(ext) = ".scala" -> "Scala"
      [] Lower(ext) = ".kt" -> "Kotlin"
      [] Lower(ext) = ".dart" -> "Dart"
      [] Lower(ext) = ".r" -> "R"
      [] Lower(ext) = ".m" -> "Objective-C"
      [] Lower(ext) = ".sh" -> "Shell"
      [] Lower(ext) = ".sql" -> "SQL"
      [] OTHER -> "Unknown"

\* variant: a member whose extension is not in the table adds no language
get_batch_info_SkipUnknown(batch) ==
    LET n == Len(batch)
    IN [files |-> [i \in 1..n |->
                     [lines |-> batch[i].lines, name |-> batch[i].name,
                      size |-> batch[i].size]],
        total_files |-> n,
        total_tokens |-> SumSeq([i \in 1..n |-> estimate_file_tokens(batch[i])]),
        total_lines |-> SumSeq([i \in 1..n |-> batch[i].lines]),
        languages |-> {extension_to_language(Lower(batch[i].extension)) : i \in 1..n}
                        \ {"Unknown"}]

\* the returned dict; 'languages' is list(set), modelled by the set (the fields
\* are written in the order TLC keeps them in)
get_batch_info(batch) ==
    LET n == Len(batch)
    IN [files |-> [i \in 1..n |->
                     [lines |-> batch[i].lines, name |-> batch[i].name,
                      size |-> batch[i].size]],
        total_files |-> n,
        total_tokens |-> SumSeq([i \in 1..n |-> estimate_file_tokens(batch[i])]),
        total_lines |-> SumSeq([i \in 1..n |-> batch[i].lines]),
        languages |-> {lang \in {extension_to_language(Lower(batch[i].extension)) :
                                    i \in 1..n} : lang # ""}]

\* the batch of the files numbered ix[1], ix[2], ...
InfoBatch(ix) == [j \in 1..Len(ix) |-> FileData(ix[j], InfoContents[ix[j]])]

\* a direct get_batch_info call
Describe(batch) ==
    /\ pc = "idle"
    /\ pc' = "described"
    /\ fn_arg' = batch
    /\ fn_result' = get_batch_info(batch)
    /\ UNCHANGED <<cfgVars, truncVars, packVars, callVars, frames, service>>

\* get_batch_info on the batch that holds the truncated copy just returned
DescribeCopy ==
    /\ pc = "truncated"
    /\ pc' = "described_copy"
    /\ fn_arg' = <<trunc_result>>
    /\ fn_result' = get_batch_info(<<trunc_result>>)
    /\ UNCHANGED <<cfgVars, truncVars, packVars, callVars, frames, service>>

\* the calls are made on an idle ContextManager (the guard of each call action,
\* repeated here in front of the choice of its arguments)
Next ==
    \/ CallEmpty
    \/ pc = "idle" /\ \E n \in 1..MaxFiles : \E contents \in [1..n -> PackContents] :
            CallFiles(FileList(contents))
    \/ LoopOversized
    \/ LoopNewBatch
    \/ LoopAdd
    \/ Finish
    \/ CallAgain
    \/ pc = "idle" /\ \E c \in TruncContents, t \in TruncTargets :
            Truncate(FileData(1, c), t)
    \/ pc = "idle" /\ \E t \in CountTexts : CountTokens(t)
    \/ pc = "idle" /\ \E n \in 0..MaxFiles : \E contents \in [1..n -> PackContents] :
            Advise(FileList(contents))
    \/ pc = "idle" /\ \E n \in (FileByFileLimit - 1)..MaxAdvised : \E c \in PackContents :
            Advise(AdvisedList(n, c))
    \/ pc = "idle" /\ \E n \in 0..MaxFiles : \E ix \in [1..n -> 1..Len(Names)] :
            Describe(InfoBatch(ix))
    \/ DescribeCopy

Spec == Init /\ [][Next]_vars

\* ==================================================================
\* Two create_batches invocations interleaved on one ContextManager.
\* frames[p] holds what invocation p keeps: its argument, its locals, its
\* position and its return value.  self.available_tokens and the tokenizer
\* are the attributes both read.
\* ==================================================================
Invocations == {1, 2}

IdleFrame ==
    [pc |-> "idle", files_data |-> <<>>, file_tokens |-> <<>>, idx |-> 0,
     batches |-> <<>>, current_batch |-> <<>>, current_tokens |-> 0, result |-> <<>>]

\* variant: batches, current_batch and current_tokens are kept on self, one
\* copy for both invocations
FrameOf_Shared(p) == 1

\* where invocation p keeps batches, current_batch and current_tokens: they
\* are local names of the call, so in its own frame
FrameOf(p) == p

InitConc ==
    /\ tokenizer \in {"encodes", "raises"}
    /\ max_context_tokens = ConcContext
    /\ response_tokens = DefaultMaxTokens
    /\ available_tokens = max_context_tokens - prompt_overhead - response_tokens
    /\ pc = "interleaved"
    /\ files_data = <<>>
    /\ file_tokens = <<>>
    /\ idx = 0
    /\ batches = <<>>
    /\ current_batch = <<>>
    /\ current_tokens = 0
    /\ result = None
    /\ truncate_calls = <<>>
    /\ trunc_file = None
    /\ trunc_max = 0
    /\ trunc_result = None
    /\ args_before = None
    /\ calls = 0
    /\ first_result = <<>>
    /\ fn_arg = <<>>
    /\ fn_result = None
    /\ frames = [p \in Invocations |-> IdleFrame]
    /\ service = IdleService

\* invocation p enters create_batches with its own list
ConcCall(p, files) ==
    /\ frames[p].pc = "idle"
    /\ LET entered == [frames EXCEPT
                ![p].pc = IF files = <<>> THEN "done" ELSE "loop",
                ![p].files_data = files,
                ![p].file_tokens = SortDesc(Estimates(files)),
                ![p].idx = 1]
       IN frames' = IF files = <<>> THEN entered
                    ELSE [entered EXCEPT
                            ![FrameOf(p)].batches = <<>>,
                            ![FrameOf(p)].current_batch = <<>>,
                            ![FrameOf(p)].current_tokens = 0]
    /\ UNCHANGED <<cfgVars, mainVars>>

ConcInLoop(p) == frames[p].pc = "loop" /\ frames[p].idx <= Len(frames[p].file_tokens)
ConcFile(p) == frames[p].file_tokens[frames[p].idx][1]
ConcTokens(p) == frames[p].file_tokens[frames[p].idx][2]
ConcStartsNewBatch(p) ==
    /\ frames[FrameOf(p)].current_tokens + ConcTokens(p) > available_tokens
    /\ frames[FrameOf(p)].current_batch # <<>>

\* one iteration of p's loop, oversized branch
ConcLoopOversized(p) ==
    /\ ConcInLoop(p)
    /\ IsOversized(ConcTokens(p))
    /\ frames' = [[frames EXCEPT ![p].idx = @ + 1] EXCEPT
            ![FrameOf(p)].batches =
                Append(@, <<truncate_file_content(ConcFile(p), available_tokens)>>)]
    /\ UNCHANGED <<cfgVars, mainVars>>

\* one iteration of p's loop, the current batch is closed
ConcLoopNewBatch(p) ==
    /\ ConcInLoop(p)
    /\ ~IsOversized(ConcTokens(p))
    /\ ConcStartsNewBatch(p)
    /\ frames' = [[frames EXCEPT ![p].idx = @ + 1] EXCEPT
            ![FrameOf(p)].batches = Append(@, frames[FrameOf(p)].current_batch),
            ![FrameOf(p)].current_batch = <<ConcFile(p)>>,
            ![FrameOf(p)].current_tokens = ConcTokens(p)]
    /\ UNCHANGED <<cfgVars, mainVars>>

\* one iteration of p's loop, the file joins the current batch
ConcLoopAdd(p) ==
    /\ ConcInLoop(p)
    /\ ~IsOversized(ConcTokens(p))
    /\ ~ConcStartsNewBatch(p)
    /\ frames' = [[frames EXCEPT ![p].idx = @ + 1] EXCEPT
            ![FrameOf(p)].current_batch = Append(@, ConcFile(p)),
            ![FrameOf(p)].current_tokens = @ + ConcTokens(p)]
    /\ UNCHANGED <<cfgVars, mainVars>>

\* p's loop is over: the final batch, and the return
ConcFinish(p) ==
    /\ frames[p].pc = "loop"
    /\ frames[p].idx > Len(frames[p].file_tokens)
    /\ LET mine == frames[FrameOf(p)]
           final == IF mine.current_batch # <<>>
                    THEN Append(mine.batches, mine.current_batch)
                    ELSE mine.batches
       IN frames' = [[frames EXCEPT ![FrameOf(p)].batches = final] EXCEPT
                        ![p].pc = "done",
                        ![p].result = final]
    /\ UNCHANGED <<cfgVars, mainVars>>

NextConc ==
    \E p \in Invocations :
        \/ frames[p].pc = "idle" /\ \E n \in 0..MaxConcFiles :
                \E contents \in [1..n -> ConcContents] : ConcCall(p, FileList(contents))
        \/ ConcLoopOversized(p)
        \/ ConcLoopNewBatch(p)
        \/ ConcLoopAdd(p)
        \/ ConcFinish(p)

SpecConc == InitConc /\ [][NextConc]_vars

\* ==================================================================
\* Properties
\* ==================================================================
RECURSIVE Flatten(_)
Flatten(bs) == IF bs = <<>> THEN <<>> ELSE Head(bs) \o Flatten(Tail(bs))

IsTruncated(e) == "truncated" \in DOMAIN e /\ e.truncated = TRUE

\* e is the input record f itself, or a truncated copy of it
IsCopyOf(e, f) ==
    \/ e = f
    \/ IsTruncated(e) /\ e.absolute_path = f.absolute_path

\* sum(self.estimate_file_tokens(file_data) for file_data in batch)
RECURSIVE batch_total_tokens(_)
batch_total_tokens(batch) ==
    IF batch = <<>> THEN 0
    ELSE estimate_file_tokens(Head(batch)) + batch_total_tokens(Tail(batch))

Returned == pc = "done"

\* C1: every input file appears in exactly one returned batch, as the
\* original record or as its truncated copy; the batch sizes sum to the
\* number of input files.
C1_Coverage ==
    Returned =>
        LET flat == Flatten(result)
        IN /\ Len(flat) = Len(files_data)
           /\ \A i \in 1..Len(files_data) :
                Cardinality({k \in 1..Len(flat) : IsCopyOf(flat[k], files_data[i])}) = 1

C1_Witness ==
    /\ Returned
    /\ Len(files_data) >= 3
    /\ \E k \in 1..Len(result) : IsTruncated(result[k][1])
    /\ \E k \in 1..Len(result) : Len(result[k]) >= 2

\* C2: every returned batch costs at most available_tokens, truncated
\* single-file batches included (stated for a positive budget).
C2_BatchesFit ==
    (Returned /\ available_tokens > 0) =>
        \A k \in 1..Len(result) : batch_total_tokens(result[k]) <= available_tokens

\* C3: with available_tokens <= 0 create_batches never returns batches.
C3_InvalidConfigRejected ==
    ~(Returned /\ available_tokens <= 0 /\ Len(result) > 0)

\* C4: a file costing more than available_tokens is truncated with target
\* available_tokens and emitted alone in a batch, flagged truncated; the call
\* returns for any number of such files.
C4_OversizedAlone ==
    Returned =>
        \A i \in 1..Len(files_data) :
            estimate_file_tokens(files_data[i]) > available_tokens =>
                /\ \E c \in 1..Len(truncate_calls) :
                        truncate_calls[c] = <<files_data[i], available_tokens>>
                /\ \E k \in 1..Len(result) :
                        /\ Len(result[k]) = 1
                        /\ IsTruncated(result[k][1])
                        /\ result[k][1].absolute_path = files_data[i].absolute_path
                /\ \A k \in 1..Len(result) :
                        (\E j \in 1..Len(result[k]) :
                            result[k][j].absolute_path = files_data[i].absolute_path)
                        => Len(result[k]) = 1

C4_Witness ==
    /\ Returned
    /\ available_tokens > 0
    /\ Cardinality({i \in 1..Len(files_data) :
            estimate_file_tokens(files_data[i]) > available_tokens}) >= 2
    /\ \E i \in 1..Len(files_data) :
            estimate_file_tokens(files_data[i]) <= available_tokens

\* C5: a file costing at most available_tokens is emitted as the identical
\* record (same content, no truncated flag); a single such file yields one
\* batch holding exactly that file.
C5_FittingUnchanged ==
    Returned =>
        /\ \A i \in 1..Len(files_data) :
              estimate_file_tokens(files_data[i]) <= available_tokens =>
                  \E k \in 1..Len(result) : \E j \in 1..Len(result[k]) :
                      /\ result[k][j] = files_data[i]
                      /\ "truncated" \notin DOMAIN result[k][j]
                      /\ result[k][j].content = files_data[i].content
        /\ (Len(files_data) = 1
            /\ estimate_file_tokens(files_data[1]) <= available_tokens)
              => result = << <<files_data[1]>> >>

\* a single file costing exactly the budget
C5_Witness ==
    /\ Returned
    /\ Len(files_data) = 1
    /\ estimate_file_tokens(files_data[1]) = available_tokens
    /\ result = << <<files_data[1]>> >>

\* C6: a non-oversized file joins the current batch exactly when
\* current_tokens + cost <= available_tokens (equality fits); otherwise the
\* non-empty current batch is emitted and a new batch holds just that file
\* with running total its cost; after the loop the non-empty current batch
\* is emitted last.  Costs 600, 300, 500 at budget 1000 give [600], [500, 300].
C6_Step ==
    (InLoop /\ token_count <= available_tokens) =>
        IF current_tokens + token_count <= available_tokens
        THEN /\ current_batch' = Append(current_batch, file_data)
             /\ current_tokens' = current_tokens + token_count
             /\ batches' = batches
        ELSE /\ current_batch # <<>>
             /\ batches' = Append(batches, current_batch)
             /\ current_batch' = <<file_data>>
             /\ current_tokens' = token_count

C6_Final ==
    (pc = "loop" /\ idx > Len(file_tokens)) =>
        /\ pc' = "done"
        /\ result' = IF current_batch # <<>> THEN Append(batches, current_batch)
                     ELSE batches

C6_Scenario ==
    (/\ Returned
     /\ available_tokens = 1000
     /\ Len(files_data) = 3
     /\ [i \in 1..3 |-> estimate_file_tokens(files_data[i])] = <<600, 300, 500>>)
        => result = << <<files_data[1]>>, <<files_data[3], files_data[2]>> >>

C6_GreedyPacking ==
    /\ [][C6_Step /\ C6_Final]_vars
    /\ []C6_Scenario

\* costs 600, 600, 400 at budget 1000: a batch closed by a file that does not
\* fit, and a batch filled exactly to the budget
C6_Witness ==
    /\ Returned
    /\ available_tokens = 1000
    /\ Len(result) = 2
    /\ Len(result[1]) = 1 /\ ~IsTruncated(result[1][1])
    /\ Len(result[2]) = 2
    /\ batch_total_tokens(result[2]) = available_tokens

\* the scenario of the claim is reached
C6_ScenarioReached ==
    /\ Returned
    /\ available_tokens = 1000
    /\ Len(files_data) = 3
    /\ [i \in 1..3 |-> estimate_file_tokens(files_data[i])] = <<600, 300, 500>>

\* C7: the files are packed in descending order of estimated cost, files of
\* equal cost in their input order.
InputPos(f) == CHOOSE i \in 1..Len(files_data) : files_data[i] = f

C7_SortedStable ==
    pc \in {"loop", "done"} =>
        /\ Len(file_tokens) = Len(files_data)
        /\ \A a \in 1..Len(file_tokens) :
              /\ \E i \in 1..Len(files_data) : files_data[i] = file_tokens[a][1]
              /\ file_tokens[a][2] = estimate_file_tokens(file_tokens[a][1])
        /\ \A a, b \in 1..Len(file_tokens) :
              a < b =>
                  /\ file_tokens[a][2] >= file_tokens[b][2]
                  /\ file_tokens[a][1] # file_tokens[b][1]
                  /\ file_tokens[a][2] = file_tokens[b][2]
                        => InputPos(file_tokens[a][1]) < InputPos(file_tokens[b][1])

\* a tie next to a pair that the sort swapped
C7_Witness ==
    /\ pc = "loop"
    /\ \E a, b \in 1..Len(file_tokens) :
          a < b /\ file_tokens[a][2] = file_tokens[b][2]
    /\ \E a, b \in 1..Len(file_tokens) :
          a < b /\ InputPos(file_tokens[a][1]) > InputPos(file_tokens[b][1])

\* C8: an empty file list returns an empty list of batches, whatever the
\* budget.
C8_EmptyInput ==
    (Returned /\ files_data = <<>>) => result = <<>>

C8_Witness ==
    /\ Returned
    /\ files_data = <<>>
    /\ result = <<>>
    /\ available_tokens <= 0

\* C9: the lines kept by _truncate_file_content are a prefix of the original
\* content's lines, each whole, and truncated_lines <= original_lines.
IsPrefix(p, s) == Len(p) <= Len(s) /\ p = SubSeq(s, 1, Len(p))

\* the content without the appended notice (the notice adds three '\n')
BeforeNotice(content) == SubSeq(content, 1, Len(content) - 3)

TruncatedDirectly == pc = "truncated"

C9_KeptLinesArePrefix ==
    TruncatedDirectly =>
        LET orig == splitlines(trunc_file.content)
            n == trunc_result.truncated_lines
        IN /\ IsPrefix(splitlines(BeforeNotice(trunc_result.content)), orig)
           /\ n <= Len(orig)
           /\ BeforeNotice(trunc_result.content) = JoinLines(SubSeq(orig, 1, n))
           /\ n <= trunc_result.original_lines

\* some lines kept, some dropped
C9_Witness ==
    /\ TruncatedDirectly
    /\ trunc_result.truncated_lines >= 1
    /\ trunc_result.truncated_lines < trunc_result.original_lines

\* C10: when the line-content budget is smaller than the cost of the first
\* line (zero and negative budgets included) the result is exactly the
\* truncation notice with truncated_lines = 0.
LineBudget(max_tokens) ==
    max_tokens - metadata_tokens - count_tokens(truncation_message)

C10_NoLineFits ==
    TruncatedDirectly =>
        LET orig == splitlines(trunc_file.content)
        IN (orig # <<>> /\ LineBudget(trunc_max) < count_tokens(LineNl(orig[1])))
            => /\ trunc_result.content = truncation_message
               /\ trunc_result.truncated_lines = 0
               /\ IsTruncated(trunc_result)

\* a positive budget too small for the first line
C10_Witness ==
    /\ TruncatedDirectly
    /\ trunc_file.lines >= 2
    /\ LineBudget(trunc_max) > 0
    /\ LineBudget(trunc_max) < count_tokens(LineNl(splitlines(trunc_file.content)[1]))
    /\ trunc_result.content = truncation_message

\* ------------------------------------------------------------------
\* C11: create_batches and _truncate_file_content leave their inputs as they
\* were: while create_batches runs and after it returned, the caller's list
\* holds the records it held at the call, in the same order, each with the
\* same fields and content; after a direct _truncate_file_content call the
\* input record is what it was, and the truncated record is another one.
C11_InputsUnchanged ==
    /\ pc \in {"loop", "done"} => files_data = args_before
    /\ pc = "truncated" =>
          /\ trunc_file = args_before
          /\ ~IsTruncated(trunc_file)
          /\ trunc_result # trunc_file

\* create_batches returned a truncated copy and the list is as it was given
C11_Witness ==
    /\ pc = "done"
    /\ \E k \in 1..Len(result) : IsTruncated(result[k][1])
    /\ files_data = args_before
    /\ \A i \in 1..Len(files_data) : ~IsTruncated(files_data[i])

Counted == pc = "counted"

C14_FallbackRoundsUp ==
    (Counted /\ tokenizer = "raises") =>
        fn_result.value = CeilDiv(StrLen(fn_arg), CharsPerToken)

\* C14, amended: when encode raises, count_tokens returns len(text) // 4, the
\* character count divided by 4 and rounded down.
C14_FallbackRoundsDown ==
    (Counted /\ tokenizer = "raises") =>
        /\ CharsPerToken * fn_result.value <= StrLen(fn_arg)
        /\ StrLen(fn_arg) < CharsPerToken * (fn_result.value + 1)

\* encode raised on a text whose length is not a multiple of 4
C14_Witness ==
    /\ Counted
    /\ tokenizer = "raises"
    /\ StrLen(fn_arg) % CharsPerToken # 0
    /\ fn_result.value = 2

\* ------------------------------------------------------------------
Advised == pc = "advised"

\* C15: optimize_batching_strategy returns single_batch exactly when the total
\* estimated cost of the files is at most available_tokens, file_by_file
\* exactly when the total is larger and there are at most 10 files, and
\* smart_batching exactly when the total is larger and there are more than 10
\* files; every input gets one of the three.
C15_StrategyRule ==
    Advised =>
        LET total == batch_total_tokens(fn_arg)
        IN /\ fn_result \in {"single_batch", "file_by_file", "smart_batching"}
           /\ fn_result = "single_batch" <=> total <= available_tokens
           /\ fn_result = "file_by_file" <=>
                 (total > available_tokens /\ Len(fn_arg) <= FileByFileLimit)
           /\ fn_result = "smart_batching" <=>
                 (total > available_tokens /\ Len(fn_arg) > FileByFileLimit)

\* exactly ten files that exceed the budget together
C15_Witness ==
    /\ Advised
    /\ Len(fn_arg) = FileByFileLimit
    /\ fn_result = "file_by_file"

\* more than ten files that exceed the budget together
C15_SmartReached == Advised /\ fn_result = "smart_batching"

\* C16 as stated: for any file list, if optimize_batching_strategy returns
\* single_batch then create_batches on the same input returns one batch.
C16_SingleBatchAdvice ==
    (Returned /\ optimize_batching_strategy(args_before) = "single_batch")
        => Len(result) = 1

\* C16, amended: for any file list that is not empty, if
\* optimize_batching_strategy returns single_batch then create_batches on the
\* same input returns exactly one batch.
C16_SingleBatchAdviceNonEmpty ==
    (Returned /\ args_before # <<>>
        /\ optimize_batching_strategy(args_before) = "single_batch")
        => Len(result) = 1

\* several files that fill the budget exactly, returned as one batch
C16_Witness ==
    /\ Returned
    /\ Len(args_before) >= 2
    /\ batch_total_tokens(args_before) = available_tokens
    /\ optimize_batching_strategy(args_before) = "single_batch"
    /\ Len(result) = 1

\* ------------------------------------------------------------------
Described == pc = "described"

RECURSIVE total_lines_of(_)
total_lines_of(batch) ==
    IF batch = <<>> THEN 0 ELSE Head(batch).lines + total_lines_of(Tail(batch))

\* C17: get_batch_info returns total_files = the number of members,
\* total_tokens = the sum of their estimated costs, total_lines = the sum of
\* their lines fields and languages = the languages of the members'
\* extensions, "Unknown" for an extension that is not in the table; for the
\* empty batch it returns zeros and no language.
C17_BatchInfo ==
    Described =>
        /\ fn_result.total_files = Len(fn_arg)
        /\ fn_result.total_tokens = batch_total_tokens(fn_arg)
        /\ fn_result.total_lines = total_lines_of(fn_arg)
        /\ \A lang \in {"Python", "JavaScript", "C", "Unknown"} :
              lang \in fn_result.languages <=>
                \E i \in 1..Len(fn_arg) :
                   \/ lang = "Python" /\ fn_arg[i].extension \in {".py", ".PY"}
                   \/ lang = "JavaScript" /\ fn_arg[i].extension = ".js"
                   \/ lang = "C" /\ fn_arg[i].extension = ".c"
                   \/ lang = "Unknown" /\ fn_arg[i].extension = ".txt"
        /\ fn_result.languages \subseteq {"Python", "JavaScript", "C", "Unknown"}
        /\ fn_arg = <<>> =>
              /\ fn_result.total_files = 0
              /\ fn_result.total_tokens = 0
              /\ fn_result.total_lines = 0
              /\ fn_result.languages = {}

\* a batch with a file of unknown extension next to a Python file
C17_Witness ==
    /\ Described
    /\ Len(fn_arg) >= 2
    /\ fn_result.languages = {"Python", "Unknown"}
    /\ fn_result.total_lines > 0

\* the empty batch
C17_EmptyReached == Described /\ fn_arg = <<>> /\ fn_result.total_files = 0

\* ------------------------------------------------------------------
\* what create_batches returns for this list when nothing else runs
RECURSIVE PackFrom(_, _, _, _, _)
PackFrom(sorted, i, closed, open, open_tokens) ==
    IF i > Len(sorted)
    THEN IF open # <<>> THEN Append(closed, open) ELSE closed
    ELSE LET f == sorted[i][1]
             t == sorted[i][2]
         IN IF t > available_tokens
            THEN PackFrom(sorted, i + 1,
                          Append(closed, <<truncate_file_content(f, available_tokens)>>),
                          open, open_tokens)
            ELSE IF open_tokens + t > available_tokens /\ open # <<>>
            THEN PackFrom(sorted, i + 1, Append(closed, open), <<f>>, t)
            ELSE PackFrom(sorted, i + 1, closed, Append(open, f), open_tokens + t)

RunAlone(files) ==
    IF files = <<>> THEN <<>> ELSE PackFrom(SortDesc(Estimates(files)), 1, <<>>, <<>>, 0)

\* the single invocation of Spec returns what RunAlone computes
RunAloneIsCreateBatches == Returned => result = RunAlone(args_before)

\* C18: of two create_batches invocations interleaved on one ContextManager,
\* each with its own list, each returns the batches it returns when run
\* alone; and an invocation that has not begun finds nothing written by the
\* other.
C18_InterleavedAsAlone ==
    \A p \in Invocations :
        /\ frames[p].pc = "done" => frames[p].result = RunAlone(frames[p].files_data)
        /\ frames[p].pc = "idle" => frames[p] = IdleFrame

\* both returned several batches, after steps of one fell between steps of
\* the other
C18_Witness ==
    /\ \A p \in Invocations :
          /\ frames[p].pc = "done"
          /\ Len(frames[p].result) >= 2
    /\ frames[1].files_data # frames[2].files_data

\* both invocations are inside their loops at once
C18_BothInLoop ==
    \A p \in Invocations : frames[p].pc = "loop" /\ frames[p].idx = 2

\* ------------------------------------------------------------------
\* accumulated cost of the first k lines, each counted with its newline
RECURSIVE PrefixCost(_, _)
PrefixCost(lines, k) ==
    IF k = 0 THEN 0 ELSE PrefixCost(lines, k - 1) + count_tokens(LineNl(lines[k]))

\* C19: _truncate_file_content keeps the longest prefix of the lines whose
\* accumulated cost (count_tokens of each line plus its newline) is at most
\* target - 200 - count_tokens(notice): it stops at the first line that would
\* exceed that budget and keeps no later line, whether or not it would fit.
C19_LongestPrefix ==
    TruncatedDirectly =>
        LET orig == splitlines(args_before.content)
            n == trunc_result.truncated_lines
            budget == trunc_max - metadata_tokens - count_tokens(truncation_message)
        IN /\ n \in 0..Len(orig)
           /\ \A k \in 1..n : PrefixCost(orig, k) <= budget
           /\ n < Len(orig) => PrefixCost(orig, n + 1) > budget
           /\ trunc_result.content =
                 Concat(JoinLines(SubSeq(orig, 1, n)), truncation_message)

\* the loop stopped at a line although a later line would still have fitted
C19_Witness ==
    /\ TruncatedDirectly
    /\ LET orig == splitlines(args_before.content)
           n == trunc_result.truncated_lines
           budget == trunc_max - metadata_tokens - count_tokens(truncation_message)
       IN /\ n + 2 <= Len(orig)
          /\ PrefixCost(orig, n) + count_tokens(LineNl(orig[n + 2])) <= budget

\* a line that fills the budget exactly was kept
C19_ExactFit ==
    /\ TruncatedDirectly
    /\ trunc_result.truncated_lines >= 1
    /\ PrefixCost(splitlines(args_before.content), trunc_result.truncated_lines) =
          trunc_max - metadata_tokens - count_tokens(truncation_message)

\* C20: the record _truncate_file_content returns has truncated = true,
\* original_lines = the input's lines field, truncated_lines = the number of
\* kept lines, and content = the kept lines joined by newlines followed by
\* the truncation notice.
C20_TruncatedRecord ==
    TruncatedDirectly =>
        LET kept == truncated_lines_of(args_before, trunc_max)
        IN /\ trunc_result.truncated = TRUE
           /\ trunc_result.original_lines = args_before.lines
           /\ trunc_result.truncated_lines = Len(kept)
           /\ trunc_result.content = Concat(JoinLines(kept), truncation_message)

\* two of three lines kept
C20_Witness ==
    /\ TruncatedDirectly
    /\ trunc_result.truncated = TRUE
    /\ trunc_result.truncated_lines = 2
    /\ trunc_result.original_lines = 3

\* ------------------------------------------------------------------
\* C21: when _truncate_file_content is applied to a file whose estimated cost
\* exceeds the (positive) target, at least one line is dropped:
\* truncated_lines < original_lines.  create_batches applies it to exactly the
\* files that cost more than available_tokens, with that target.
C21_LineDropped ==
    (Returned /\ available_tokens > 0) =>
        \A k \in 1..Len(result) :
            IsTruncated(result[k][1]) =>
                result[k][1].truncated_lines < result[k][1].original_lines

\* the same for direct calls, whatever the target
C21_LineDroppedDirect ==
    (TruncatedDirectly /\ estimate_file_tokens(args_before) > trunc_max) =>
        trunc_result.truncated_lines < trunc_result.original_lines

\* an oversized file of several lines lost some of them
C21_SomeDropped ==
    /\ Returned
    /\ available_tokens > 0
    /\ \E k \in 1..Len(result) :
          /\ IsTruncated(result[k][1])
          /\ result[k][1].truncated_lines >= 1
          /\ result[k][1].truncated_lines < result[k][1].original_lines

\* ------------------------------------------------------------------
\* C23: create_batches never returns an empty batch: in every state of the
\* packing loop each batch appended so far holds at least one file, and so
\* does each batch of the result.
C23_NoEmptyBatch ==
    /\ \A k \in 1..Len(batches) : batches[k] # <<>>
    /\ Returned => \A k \in 1..Len(result) : Len(result[k]) >= 1

\* the loop ended with an empty current_batch after several oversized files
C23_Witness ==
    /\ Returned
    /\ current_batch = <<>>
    /\ Len(result) >= 2
    /\ \A k \in 1..Len(result) : Len(result[k]) = 1 /\ IsTruncated(result[k][1])

\* ------------------------------------------------------------------
\* a batch of files that were not truncated
IsRegular(batch) == ~IsTruncated(batch[1])

\* the cost create_batches estimated for the input file that e is, or is the
\* truncated copy of
OriginalCost(e) ==
    estimate_file_tokens(
        args_before[CHOOSE i \in 1..Len(args_before) :
                        args_before[i].absolute_path = e.absolute_path])

\* C24: for two consecutive batches B, B' of non-truncated files in the
\* output of create_batches, the total cost of B plus the cost of the first
\* file of B' is strictly greater than available_tokens.
C24_ClosedBecauseFull ==
    Returned =>
        \A k \in 1..(Len(result) - 1) :
            (IsRegular(result[k]) /\ IsRegular(result[k + 1])) =>
                batch_total_tokens(result[k]) + estimate_file_tokens(result[k + 1][1])
                    > available_tokens

\* two consecutive batches of non-truncated files, the first with two files
C24_Witness ==
    /\ Returned
    /\ \E k \in 1..(Len(result) - 1) :
          /\ IsRegular(result[k])
          /\ IsRegular(result[k + 1])
          /\ Len(result[k]) = 2

\* C25: in the output of create_batches every single-file batch of a
\* truncated file comes before every batch of non-truncated files, and the
\* truncated files appear in descending order of their original cost.
C25_TruncatedFirst ==
    Returned =>
        \A j, k \in 1..Len(result) :
            (j < k /\ IsTruncated(result[k][1])) =>
                /\ IsTruncated(result[j][1])
                /\ Len(result[j]) = 1
                /\ Len(result[k]) = 1
                /\ OriginalCost(result[j][1]) >= OriginalCost(result[k][1])

\* two truncated files of different cost, given in ascending order, and a
\* batch of non-truncated files after them
C25_Witness ==
    /\ Returned
    /\ Len(result) = 3
    /\ IsTruncated(result[1][1])
    /\ IsTruncated(result[2][1])
    /\ OriginalCost(result[1][1]) > OriginalCost(result[2][1])
    /\ IsRegular(result[3])
    /\ estimate_file_tokens(args_before[1]) < estimate_file_tokens(args_before[2])

\* C26: the batches of non-truncated files, concatenated in output order,
\* are the non-oversized input files, each once, in non-increasing order of
\* cost; so each batch is a run of the sorted sequence and its first file is
\* its costliest.
C26_RegularBatchesSorted ==
    Returned =>
        LET regular == Flatten(SelectSeq(result, IsRegular))
        IN /\ \A a, b \in 1..Len(regular) :
                 a < b =>
                    /\ estimate_file_tokens(regular[a]) >= estimate_file_tokens(regular[b])
                    /\ regular[a] # regular[b]
           /\ \A i \in 1..Len(args_before) :
                 estimate_file_tokens(args_before[i]) <= available_tokens
                    <=> \E a \in 1..Len(regular) : regular[a] = args_before[i]
           /\ \A k \in 1..Len(result) :
                 IsRegular(result[k]) =>
                    \A m \in 1..Len(result[k]) :
                        estimate_file_tokens(result[k][1])
                            >= estimate_file_tokens(result[k][m])

\* two batches of non-truncated files from a list given in ascending order
C26_Witness ==
    /\ Returned
    /\ Len(SelectSeq(result, IsRegular)) >= 2
    /\ Len(args_before) = 3
    /\ estimate_file_tokens(args_before[1]) < estimate_file_tokens(args_before[2])
    /\ estimate_file_tokens(args_before[2]) < estimate_file_tokens(args_before[3])
    /\ estimate_file_tokens(args_before[3]) <= available_tokens

\* ------------------------------------------------------------------
DescribedCopy == pc = "described_copy"

\* C27: the truncated copy differs from its input only in content, truncated,
\* original_lines and truncated_lines: name, path, extension, size and lines
\* are the input's, so lines is still the original line count, and
\* get_batch_info reports that count as total_lines of a batch holding the
\* copy.
C27_CopyKeepsFields ==
    (TruncatedDirectly \/ DescribedCopy) =>
        /\ DOMAIN trunc_result =
              DOMAIN args_before \cup {"truncated", "original_lines", "truncated_lines"}
        /\ \A field \in DOMAIN args_before \ {"content"} :
              trunc_result[field] = args_before[field]
        /\ trunc_result.lines = Len(splitlines(args_before.content))
        /\ DescribedCopy => fn_result.total_lines = args_before.lines

\* a batch info on a copy that lost lines: total_lines is what the file had
C27_Witness ==
    /\ DescribedCopy
    /\ trunc_result.truncated_lines < args_before.lines
    /\ fn_result.total_lines = args_before.lines
    /\ trunc_result.size = StrLen(args_before.content)
    /\ StrLen(trunc_result.content) # trunc_result.size

\* ------------------------------------------------------------------
\* the list with the files at positions i and i + 1 exchanged
SwapAt(files, i) ==
    [j \in 1..Len(files) |->
        IF j = i THEN files[i + 1] ELSE IF j = i + 1 THEN files[i] ELSE files[j]]

\* batch by batch, the costs create_batches estimated for the members
CostShape(bs) == [k \in 1..Len(bs) |-> [m \in 1..Len(bs[k]) |-> OriginalCost(bs[k][m])]]

\* C28: for two lists that are permutations of each other and the same
\* budget, create_batches returns as many batches and, batch by batch, the
\* same sequence of file costs (the costs it sorted the files by).  Checked
\* for the exchange of two neighbours of every list, from which every
\* permutation is made.
C28_PermutationSameCosts ==
    Returned =>
        \A i \in 1..(Len(args_before) - 1) :
            CostShape(RunAlone(SwapAt(args_before, i))) = CostShape(result)

\* files of equal cost change places in the output when they do in the
\* input, and the costs stay where they were
C28_Witness ==
    /\ Returned
    /\ Len(args_before) = 3
    /\ Len(result) >= 2
    /\ estimate_file_tokens(args_before[1]) = estimate_file_tokens(args_before[2])
    /\ RunAlone(SwapAt(args_before, 1)) # result
    /\ CostShape(RunAlone(SwapAt(args_before, 1))) = CostShape(result)
    /\ estimate_file_tokens(args_before[2]) < estimate_file_tokens(args_before[3])

\* C29: for a non-empty list, if optimize_batching_strategy returns
\* file_by_file or smart_batching then create_batches returns at least two
\* batches or a batch holding a truncated file; the advice is single_batch
\* exactly when the output is one batch of untruncated files.
C29_AdviceMatchesOutput ==
    (Returned /\ args_before # <<>>) =>
        LET advice == optimize_batching_strategy(args_before)
            truncated_some == \E k \in 1..Len(result) : IsTruncated(result[k][1])
        IN /\ advice \in {"file_by_file", "smart_batching"} =>
                 (Len(result) >= 2 \/ truncated_some)
           /\ advice = "single_batch" <=> (Len(result) = 1 /\ ~truncated_some)

\* file_by_file advice for a list that yields one batch, of a truncated file
C29_Witness ==
    /\ Returned
    /\ optimize_batching_strategy(args_before) = "file_by_file"
    /\ Len(result) = 1
    /\ IsTruncated(result[1][1])
    /\ available_tokens > 0

\* file_by_file advice for a list that yields several batches, none truncated
C29_SeveralBatches ==
    /\ Returned
    /\ optimize_batching_strategy(args_before) = "file_by_file"
    /\ Len(result) >= 2
    /\ \A k \in 1..Len(result) : IsRegular(result[k])

\* ------------------------------------------------------------------
\* the values of available_tokens the configurations of ContextChoices give
\* and others between and around the costs of the files, in ascending order
BudgetGrid == <<-1000, 0, 10, 300, 600, 700, 900, 1000, 1100, 1500, 122000>>

\* variant: a file that exceeds the budget alone is left out
RECURSIVE CountDropping(_, _, _, _, _, _)
CountDropping(sorted, i, closed, open_len, open_tokens, budget) ==
    IF i > Len(sorted)
    THEN IF open_len > 0 THEN closed + 1 ELSE closed
    ELSE LET t == sorted[i][2]
         IN IF t > budget
            THEN CountDropping(sorted, i + 1, closed, open_len, open_tokens, budget)
            ELSE IF open_tokens + t > budget /\ open_len > 0
            THEN CountDropping(sorted, i + 1, closed + 1, 1, t, budget)
            ELSE CountDropping(sorted, i + 1, closed, open_len + 1, open_tokens + t, budget)

BatchCountAt_Dropping(files, budget) ==
    IF files = <<>> THEN 0
    ELSE CountDropping(SortDesc(Estimates(files)), 1, 0, 0, 0, budget)

\* the number of batches the loop of create_batches appends from position i
\* on when available_tokens is budget
RECURSIVE CountFrom(_, _, _, _, _, _)
CountFrom(sorted, i, closed, open_len, open_tokens, budget) ==
    IF i > Len(sorted)
    THEN IF open_len > 0 THEN closed + 1 ELSE closed
    ELSE LET t == sorted[i][2]
         IN IF t > budget
            THEN CountFrom(sorted, i + 1, closed + 1, open_len, open_tokens, budget)
            ELSE IF open_tokens + t > budget /\ open_len > 0
            THEN CountFrom(sorted, i + 1, closed + 1, 1, t, budget)
            ELSE CountFrom(sorted, i + 1, closed, open_len + 1, open_tokens + t, budget)

\* len(create_batches(files)) on a ContextManager whose available_tokens is
\* budget
BatchCountAt(files, budget) ==
    IF files = <<>> THEN 0
    ELSE CountFrom(SortDesc(Estimates(files)), 1, 0, 0, 0, budget)

\* C30: for a fixed file list and two budgets A <= B, create_batches under
\* available_tokens = B returns no more batches than under A.  The number of
\* batches of the call that returned is the count at its budget, and the
\* count does not grow from one budget of the grid to the next.
C30_BudgetMonotone ==
    Returned =>
        /\ \E k \in 1..Len(BudgetGrid) : BudgetGrid[k] = available_tokens
        /\ Len(result) = BatchCountAt(args_before, available_tokens)
        /\ \A k \in 1..(Len(BudgetGrid) - 1) :
              /\ BudgetGrid[k] <= BudgetGrid[k + 1]
              /\ BatchCountAt(args_before, BudgetGrid[k + 1])
                    <= BatchCountAt(args_before, BudgetGrid[k])

\* a list that takes three batches at this budget and one at a larger one
C30_Witness ==
    /\ Returned
    /\ available_tokens > 0
    /\ Len(result) = 3
    /\ \E k \in 1..Len(BudgetGrid) :
          /\ BudgetGrid[k] > available_tokens
          /\ BatchCountAt(args_before, BudgetGrid[k]) = 2

\* ==================================================================
\* One AnalysisService.analyze_files run (src/app/services/analysis_service.py).
\* service.llm_calls logs the (1-based) position in batches of every batch
\* handed to llm_client.analyze_batch.  The converted file records carry the
\* fields create_batches reads; RunAlone is the create_batches call of line 118.
\* ==================================================================
OutputFormats == {"json", "markdown", "both"}

InitService ==
    /\ tokenizer \in {"encodes", "raises"}
    /\ max_context_tokens = ConcContext
    /\ response_tokens = DefaultMaxTokens
    /\ available_tokens = max_context_tokens - prompt_overhead - response_tokens
    /\ pc = "service"
    /\ files_data = <<>>
    /\ file_tokens = <<>>
    /\ idx = 0
    /\ batches = <<>>
    /\ current_batch = <<>>
    /\ current_tokens = 0
    /\ result = None
    /\ truncate_calls = <<>>
    /\ trunc_file = None
    /\ trunc_max = 0
    /\ trunc_result = None
    /\ args_before = None
    /\ calls = 0
    /\ first_result = <<>>
    /\ fn_arg = <<>>
    /\ fn_result = None
    /\ frames = <<>>
    /\ service = IdleService

serviceFrame == <<cfgVars, pc, packVars, truncVars, callVars, fn_arg, fn_result, frames>>

\* analyze_files up to the create_batches call: no files raises
\* FileProcessingError
SvcStart(files, format) ==
    /\ service.pc = "idle"
    /\ service' = IF files = <<>>
                  THEN [service EXCEPT !.pc = "failed", !.output_format = format]
                  ELSE [service EXCEPT !.pc = "analyze",
                                       !.idx = 1,
                                       !.batches = RunAlone(files),
                                       !.output_format = format]
    /\ UNCHANGED serviceFrame

\* one iteration of the loop of _analyze_batches: the model is called with
\* batches[idx]; it answers, or raises and the run ends with LLMServiceError
SvcAnalyzeBatch(answers) ==
    /\ service.pc = "analyze"
    /\ service.idx <= Len(service.batches)
    /\ service' = IF answers
                  THEN [service EXCEPT !.idx = @ + 1,
                                       !.llm_calls = Append(@, service.idx),
                                       !.batch_results = @ + 1]
                  ELSE [service EXCEPT !.pc = "failed",
                                       !.llm_calls = Append(@, service.idx)]
    /\ UNCHANGED serviceFrame

\* _analyze_batches returned; _generate_markdown_output returns None at once
\* unless output_format is "markdown" or "both"
SvcAfterAnalysis ==
    /\ service.pc = "analyze"
    /\ service.idx > Len(service.batches)
    /\ service' = IF service.output_format \in {"markdown", "both"}
                  THEN [service EXCEPT !.pc = "markdown", !.idx = 1]
                  ELSE [service EXCEPT !.pc = "returned"]
    /\ UNCHANGED serviceFrame

\* one iteration of the loop of _generate_markdown_output over batch_results:
\* full_result = self.llm_client.analyze_batch(batches[i]); an exception is
\* caught and the markdown output is None
SvcMarkdownBatch(answers) ==
    /\ service.pc = "markdown"
    /\ service.idx <= service.batch_results
    /\ service' = IF answers
                  THEN [service EXCEPT !.idx = @ + 1,
                                       !.llm_calls = Append(@, service.idx)]
                  ELSE [service EXCEPT !.pc = "returned",
                                       !.llm_calls = Append(@, service.idx)]
    /\ UNCHANGED serviceFrame

\* markdown_formatter.format_results, and the response
SvcMarkdownDone ==
    /\ service.pc = "markdown"
    /\ service.idx > service.batch_results
    /\ service' = [service EXCEPT !.pc = "returned", !.markdown_output = "formatted"]
    /\ UNCHANGED serviceFrame

NextService ==
    \/ service.pc = "idle" /\ \E n \in 0..MaxServiceFiles :
            \E contents \in [1..n -> ConcContents], format \in OutputFormats :
                SvcStart(FileList(contents), format)
    \/ \E answers \in BOOLEAN : SvcAnalyzeBatch(answers)
    \/ SvcAfterAnalysis
    \/ \E answers \in BOOLEAN : SvcMarkdownBatch(answers)
    \/ SvcMarkdownDone

SpecService == InitService /\ [][NextService]_vars

\* C22: in one analyze_files run that returns a response, for every
\* output_format, llm_client.analyze_batch is called exactly once for each
\* batch create_batches returned, in batch order.
C22_OneCallPerBatch ==
    service.pc = "returned" =>
        service.llm_calls = [k \in 1..Len(service.batches) |-> k]

\* the same for the runs that do not ask for markdown
C22_OneCallPerBatchJson ==
    (service.pc = "returned" /\ service.output_format = "json") =>
        service.llm_calls = [k \in 1..Len(service.batches) |-> k]

\* a markdown run of two batches has returned
C22_MarkdownReturned ==
    /\ service.pc = "returned"
    /\ service.output_format = "markdown"
    /\ service.markdown_output = "formatted"
    /\ Len(service.batches) = 2

====
